---- MODULE Spec2Model ----
(***************************************************************************)
(* Model of RSSAgent (src/unnamed/part_002, the current entry point, and   *)
(* src/src/index.ts, its earlier revision).                                *)
(*                                                                         *)
(* Spec        one run of the top-level script: credentials, CLI parsing,  *)
(*             generateValidatedReport, trend comparison, fallback fetch   *)
(*             pass, the two writes.                                       *)
(* SpecLoad    loadFeedsFromSourceDir: concurrent OPML reads, merge, dedup *)
(* SpecRank    the ranker of collectNewsFromSourceDir                      *)
(* SpecFetch   fetchFeedLatestItems on one feed                            *)
(* SpecCollect the fan-out/fan-in of collectNewsFromSourceDir              *)
(* SpecObserve the observability record, its samples and its storage      *)
(* SpecRuns    successive runs over one news directory and a local clock   *)
(* SpecOpml    the outline walk of loadFeedsFromSingleOpml                 *)
(* SpecValidation  two runs of generateValidatedReport side by side        *)
(* SpecSections    hasRequiredHeadings and extractSectionBody on one text  *)
(***************************************************************************)
EXTENDS Integers, Sequences, FiniteSets, TLC

VARIABLES
    \* ---- Spec: the top-level run
    pc, credsOk, argv, dirState, newsDir, attempt, genCalls, genTexts,
    lastText, lastToolOutput, generated, previousReportPath, previousReport,
    trendCalls, trendSummary, fallbackToolOutput, passes, mdFile, jsonFile,
    abortCause,
    \* the text trendAgent.generate returned, and for each generation attempt
    \* the fetch pass its tool call ran (0: none)
    trendText, genPasses,
    \* ---- SpecLoad: loadFeedsFromSourceDir
    ldPc, ldDir, opmlFiles, settled, ldOrder, ldResult,
    \* ---- SpecRank: the ranker
    rkPc, rkFeeds, rkProfile, rkMaxFeeds, rkKeywords, rkRanked,
    \* ---- SpecFetch: fetchFeedLatestItems on one feed
    ftPc, ftNet, ftMax, ftSince, ftOutcome,
    \* ---- SpecCollect: the fetch pass of collectNewsFromSourceDir
    clPc, clFeeds, clMax, clSince, clNet, clOutcomes, clOrder, clResult,
    \* ---- SpecObserve: the observability record and its uses
    obPc, obFeeds, obOutcomes, obRecord, obSampleLines, obStored,
    \* ---- SpecRuns: successive runs over one news directory
    rnPc, rnClock, rnSetBacks, rnFiles, rnRun, rnCompared, rnStamp, rnLog,
    \* ---- SpecOpml: loadFeedsFromSingleOpml on one parsed document
    opPc, opTree, opStack, opFeeds, opSteps,
    \* ---- SpecValidation: two runs of generateValidatedReport side by side
    vlPc, vlTexts, vlReports, vlFlags,
    \* ---- SpecSections: the structured sections of one report text
    scPc, scText, scValid, scSections

envVars == <<credsOk, argv, dirState, newsDir>>
genVars == <<attempt, genCalls, genTexts, genPasses, lastText, lastToolOutput, generated>>
trendVars == <<previousReportPath, previousReport, trendCalls, trendText, trendSummary>>
outVars == <<fallbackToolOutput, mdFile, jsonFile>>
runVars == <<pc, abortCause, passes, envVars, genVars, trendVars, outVars>>

loadVars == <<ldPc, ldDir, opmlFiles, settled, ldOrder, ldResult>>

rankVars == <<rkPc, rkFeeds, rkProfile, rkMaxFeeds, rkKeywords, rkRanked>>

fetchVars == <<ftPc, ftNet, ftMax, ftSince, ftOutcome>>
collectVars == <<clPc, clFeeds, clMax, clSince, clNet, clOutcomes, clOrder, clResult>>

observeVars == <<obPc, obFeeds, obOutcomes, obRecord, obSampleLines, obStored>>

runsVars == <<rnPc, rnClock, rnSetBacks, rnFiles, rnRun, rnCompared, rnStamp, rnLog>>
opmlVars == <<opPc, opTree, opStack, opFeeds, opSteps>>
validationVars == <<vlPc, vlTexts, vlReports, vlFlags>>
sectionsVars == <<scPc, scText, scValid, scSections>>
vars == <<runVars, loadVars, rankVars, fetchVars, collectVars, observeVars, runsVars, opmlVars, validationVars, sectionsVars>>

nonRunVars == <<loadVars, rankVars, fetchVars, collectVars, observeVars, runsVars, opmlVars, validationVars, sectionsVars>>
nonLoadVars == <<runVars, rankVars, fetchVars, collectVars, observeVars, runsVars, opmlVars, validationVars, sectionsVars>>
nonRankVars == <<runVars, loadVars, fetchVars, collectVars, observeVars, runsVars, opmlVars, validationVars, sectionsVars>>
nonFetchVars == <<runVars, loadVars, rankVars, collectVars, observeVars, runsVars, opmlVars, validationVars, sectionsVars>>
nonCollectVars == <<runVars, loadVars, rankVars, fetchVars, observeVars, runsVars, opmlVars, validationVars, sectionsVars>>
nonObserveVars == <<runVars, loadVars, rankVars, fetchVars, collectVars, runsVars, opmlVars, validationVars, sectionsVars>>
nonRunsVars == <<runVars, loadVars, rankVars, fetchVars, collectVars, observeVars, opmlVars, validationVars, sectionsVars>>
nonOpmlVars == <<runVars, loadVars, rankVars, fetchVars, collectVars, observeVars, runsVars, validationVars, sectionsVars>>
nonValidationVars == <<runVars, loadVars, rankVars, fetchVars, collectVars, observeVars, runsVars, opmlVars, sectionsVars>>
nonSectionsVars == <<runVars, loadVars, rankVars, fetchVars, collectVars, observeVars, runsVars, opmlVars, validationVars>>

\* null | a value, as a sequence of length 0 or 1
None == <<>>
Some(x) == <<x>>
IsSome(o) == Len(o) = 1
Val(o) == o[1]

(***************************************************************************)
(* Texts                                                                   *)
(***************************************************************************)
\* REQUIRED_HEADINGS has four entries
NumHeadings == 4
REQUIRED_HEADINGS == 1..NumHeadings

\* distinct report texts per set of headings they contain
MaxTextId == 2

\* A generated report text (after trim): an identity and the required
\* headings that occur in it as substrings.
HeadChoices == {REQUIRED_HEADINGS, REQUIRED_HEADINGS \ {4}, {2, 3}, {}}
Texts == [id : 1..MaxTextId, heads : HeadChoices]

\* some() in place of every()
hasRequiredHeadingsAny(text) == \E heading \in REQUIRED_HEADINGS : heading \in text.heads
hasRequiredHeadings(text) == \A heading \in REQUIRED_HEADINGS : heading \in text.heads

\* Strings of the trend call: sequences over a blank and a visible character
Blank == " "
TrendRaw == {<<>>, <<Blank>>, <<"x">>, <<Blank, "x", Blank>>}

IsBlank(c) == c = Blank

RECURSIVE TrimStart(_)
TrimStart(s) == IF s = <<>> THEN s
                ELSE IF IsBlank(Head(s)) THEN TrimStart(Tail(s)) ELSE s

RECURSIVE TrimEnd(_)
TrimEnd(s) == IF s = <<>> THEN s
              ELSE IF IsBlank(s[Len(s)]) THEN TrimEnd(SubSeq(s, 1, Len(s) - 1)) ELSE s

Trim(s) == TrimEnd(TrimStart(s))

FIRST_RUN_MESSAGE == <<"first-run">>
NO_TREND_MESSAGE == <<"no-clear-trend">>

(***************************************************************************)
(* The environment of a run                                                *)
(***************************************************************************)
\* the directory named by cli.sourceDir, and another one the model may name
\* in its tool call (the schema default 'rss-source' when it names none)
CliDir == "cliDir"
OtherDir == "otherDir"
Dirs == {CliDir, OtherDir}

\* what loadFeedsFromSourceDir finds in a directory
DirStates == {"ok", "noOpml", "unreadable"}

\* the news directory before the run: no report, or one previous narrative
\* whose content is empty or not
PrevReports == {None, Some([name |-> "prev.md", empty |-> FALSE]),
                Some([name |-> "prev.md", empty |-> TRUE])}

\* parameter sets of a fetch pass
LlmParams == "llm"
FallbackParams == "fallback"

ToolOutputOf(dir, params, pass) == [sourceDir |-> dir, params |-> params, pass |-> pass]

RunInit ==
    /\ pc = "env"
    /\ credsOk \in BOOLEAN
    /\ argv \in {"ok", "missingSourceDirValue"}
    /\ dirState \in [Dirs -> DirStates]
    /\ newsDir \in PrevReports
    /\ attempt = 0
    /\ genCalls = 0
    /\ genTexts = <<>>
    /\ genPasses = <<>>
    /\ lastText = None
    /\ lastToolOutput = None
    /\ generated = None
    /\ previousReportPath = None
    /\ previousReport = None
    /\ trendCalls = 0
    /\ trendText = None
    /\ trendSummary = None
    /\ fallbackToolOutput = None
    /\ passes = 0
    /\ mdFile = None
    /\ jsonFile = None
    /\ abortCause = "none"

\* the top-level run when another part of the program is under study
RunIdle ==
    /\ pc = "idle"
    /\ credsOk = TRUE
    /\ argv = "ok"
    /\ dirState = [d \in Dirs |-> "ok"]
    /\ newsDir = None
    /\ attempt = 0
    /\ genCalls = 0
    /\ genTexts = <<>>
    /\ genPasses = <<>>
    /\ lastText = None
    /\ lastToolOutput = None
    /\ generated = None
    /\ previousReportPath = None
    /\ previousReport = None
    /\ trendCalls = 0
    /\ trendText = None
    /\ trendSummary = None
    /\ fallbackToolOutput = None
    /\ passes = 0
    /\ mdFile = None
    /\ jsonFile = None
    /\ abortCause = "none"

Abort(cause) ==
    /\ pc' = "aborted"
    /\ abortCause' = cause

\* assertNonEmptyEnv: process.exit(1) when the key or the model id is missing
CheckEnv ==
    /\ pc = "env"
    /\ IF credsOk
         THEN pc' = "cli" /\ UNCHANGED abortCause
         ELSE Abort("credentials")
    /\ UNCHANGED <<nonRunVars, passes, envVars, genVars, trendVars, outVars>>

\* parseCliArgs: throws on --source-dir without a value; nothing catches it
ParseCliArgs ==
    /\ pc = "cli"
    /\ IF argv = "missingSourceDirValue"
         THEN Abort("cliArgs")
         ELSE pc' = "generate" /\ UNCHANGED abortCause
    /\ UNCHANGED <<nonRunVars, passes, envVars, genVars, trendVars, outVars>>

\* the loop of generateValidatedReport runs for attempt = 0, 1
MaxAttempts == 2

\* the value returned after the loop: the last text, flagged as retried
AfterLoop(lastT, lastO) == [text |-> lastT, toolOutput |-> lastO, retries |-> 1]

\* One iteration of the loop, given what rssAgent.generate returned: the
\* trimmed text and the tool output findToolOutput found (or null).
LoopStep(text, toolOutput) ==
    /\ lastText' = Some(text)
    /\ lastToolOutput' = toolOutput
    /\ genTexts' = Append(genTexts, text)
    /\ IF hasRequiredHeadings(text)
         THEN /\ generated' = Some([text |-> text, toolOutput |-> toolOutput, retries |-> attempt])
              /\ attempt' = attempt
              /\ pc' = "latest"
         ELSE IF attempt + 1 < MaxAttempts
           THEN /\ generated' = generated
                /\ attempt' = attempt + 1
                /\ pc' = "generate"
           ELSE /\ generated' = Some(AfterLoop(text, toolOutput))
                /\ attempt' = attempt + 1
                /\ pc' = "latest"
    /\ UNCHANGED abortCause

\* rssAgent.generate fails (the model endpoint, or a tool error the SDK
\* rethrows): the rejection leaves generateValidatedReport and the script.
GenerateThrows ==
    /\ pc = "generate" /\ attempt < MaxAttempts
    /\ genCalls' = genCalls + 1
    /\ \E cause \in {"generate"} \cup
                    {"toolError" : d \in {x \in Dirs : dirState[x] # "ok"}} :
          Abort(cause)
    /\ UNCHANGED <<nonRunVars, passes, envVars, attempt, genTexts, genPasses, lastText,
                   lastToolOutput, generated, trendVars, outVars>>

\* rssAgent.generate returns and the model did not call the tool, or called
\* it on a directory where collectNewsFromSourceDir throws: no tool output.
GenerateWithoutTool ==
    /\ pc = "generate" /\ attempt < MaxAttempts
    /\ genCalls' = genCalls + 1
    /\ \E text \in Texts : LoopStep(text, None)
    /\ genPasses' = Append(genPasses, 0)
    /\ UNCHANGED <<nonRunVars, passes, envVars, trendVars, outVars>>

\* rssAgent.generate returns and the model called the tool on directory d
\* (its own choice of sourceDir), where the fetch pass succeeded; the tool
\* result is among result.toolResults or not (findToolOutput: null).
GenerateWithTool ==
    /\ pc = "generate" /\ attempt < MaxAttempts
    /\ genCalls' = genCalls + 1
    /\ \E text \in Texts, d \in Dirs, visible \in BOOLEAN :
          /\ dirState[d] = "ok"
          /\ passes' = passes + 1
          /\ LoopStep(text, IF visible THEN Some(ToolOutputOf(d, LlmParams, passes'))
                                       ELSE None)
    /\ genPasses' = Append(genPasses, passes')
    /\ UNCHANGED <<nonRunVars, envVars, trendVars, outVars>>

\* getLatestReportFile and the read of the previous report
GetLatestReport ==
    /\ pc = "latest"
    /\ previousReportPath' = IF newsDir = None THEN None ELSE Some(Val(newsDir).name)
    /\ previousReport' = IF newsDir = None THEN None ELSE Some(Val(newsDir).empty)
    /\ pc' = "trend"
    /\ UNCHANGED <<nonRunVars, abortCause, passes, envVars, genVars, trendCalls, trendText,
                   trendSummary, outVars>>

\* only the empty string counted as no report
NoPreviousEmptyOnly(prev) == IF prev = None THEN FALSE ELSE Val(prev)
\* !previousReport: null, or the empty string
NoPrevious(prev) == IF prev = None THEN TRUE ELSE Val(prev)

\* the emptiness test made on the untrimmed text
TrendOfUntrimmed(raw) == IF raw = <<>> THEN NO_TREND_MESSAGE ELSE raw
\* trend.text.trim(), or the fixed message when that is empty
TrendOf(raw) == IF Trim(raw) = <<>> THEN NO_TREND_MESSAGE ELSE Trim(raw)

\* summarizeTrend without a previous report: the fixed message, no call
TrendFirstRun ==
    /\ pc = "trend"
    /\ NoPrevious(previousReport)
    /\ trendSummary' = Some(FIRST_RUN_MESSAGE)
    /\ pc' = "fallback"
    /\ UNCHANGED <<nonRunVars, abortCause, passes, envVars, genVars, previousReportPath,
                   previousReport, trendCalls, trendText, outVars>>

\* summarizeTrend with a previous report: trendAgent.generate returns
TrendCompared ==
    /\ pc = "trend"
    /\ ~NoPrevious(previousReport)
    /\ trendCalls' = trendCalls + 1
    /\ \E raw \in TrendRaw :
          /\ trendText' = Some(raw)
          /\ trendSummary' = Some(TrendOf(raw))
    /\ pc' = "fallback"
    /\ UNCHANGED <<nonRunVars, abortCause, passes, envVars, genVars, previousReportPath,
                   previousReport, outVars>>

\* trendAgent.generate rejects: nothing catches it
TrendThrows ==
    /\ pc = "trend"
    /\ ~NoPrevious(previousReport)
    /\ trendCalls' = trendCalls + 1
    /\ Abort("trend")
    /\ UNCHANGED <<nonRunVars, passes, envVars, genVars, previousReportPath, previousReport,
                   trendText, trendSummary, outVars>>

\* generated.toolOutput ?? await collectNewsFromSourceDir({cli.sourceDir, 30, 3, 7})
FallbackToolOutput ==
    /\ pc = "fallback"
    /\ IF IsSome(Val(generated).toolOutput)
         THEN /\ fallbackToolOutput' = Val(generated).toolOutput
              /\ pc' = "writeMd"
              /\ UNCHANGED <<passes, abortCause>>
         ELSE IF dirState[CliDir] = "ok"
           THEN /\ passes' = passes + 1
                /\ fallbackToolOutput' = Some(ToolOutputOf(CliDir, FallbackParams, passes'))
                /\ pc' = "writeMd"
                /\ UNCHANGED abortCause
           ELSE /\ Abort(IF dirState[CliDir] = "noOpml" THEN "noOpml" ELSE "opmlRead")
                /\ UNCHANGED <<passes, fallbackToolOutput>>
    /\ UNCHANGED <<nonRunVars, envVars, genVars, trendVars, mdFile, jsonFile>>

\* reportContent and its writeFile
WriteMarkdown ==
    /\ pc = "writeMd"
    /\ mdFile' = Some([body |-> Val(generated).text,
                       formatValidationRetried |-> IF Val(generated).retries > 0 THEN "yes" ELSE "no",
                       comparedWith |-> previousReportPath,
                       trend |-> Val(trendSummary),
                       observability |-> Val(fallbackToolOutput)])
    /\ pc' = "writeJson"
    /\ UNCHANGED <<nonRunVars, abortCause, passes, envVars, genVars, trendVars, fallbackToolOutput, jsonFile>>

\* structured and its writeFile
WriteJson ==
    /\ pc = "writeJson"
    /\ jsonFile' = Some([sectionsOf |-> Val(generated).text,
                         formatValidationRetried |-> Val(generated).retries > 0,
                         comparedWith |-> previousReportPath,
                         trends |-> Val(trendSummary),
                         feedObservability |-> Val(fallbackToolOutput)])
    /\ pc' = "done"
    /\ UNCHANGED <<nonRunVars, abortCause, passes, envVars, genVars, trendVars, fallbackToolOutput, mdFile>>


(***************************************************************************)
(* loadFeedsFromSourceDir                                                  *)
(***************************************************************************)
\* names of the entries a source directory may hold, ordered as .sort() does
MaxFiles == 2
\* feeds one OPML file may list
MaxFeedsPerFile == 2

FileNames == 1..MaxFiles
Urls == {"u1", "u2"}

\* What loadFeedsFromSingleOpml returns for the file called name whose
\* outlines carry the feed URLs urls: the title of a descriptor tells the
\* outline it came from.
FeedsOfFile(name, urls) ==
    [i \in 1..Len(urls) |-> [xmlUrl |-> urls[i], title |-> <<name, i>>]]

UrlLists == UNION {[1..n -> Urls] : n \in 0..MaxFeedsPerFile}

\* a directory entry: absent, not an .opml file, an .opml file that cannot
\* be read, or an .opml file and the feeds it lists
DirEntries(name) ==
    {[kind |-> "absent", feeds |-> <<>>], [kind |-> "other", feeds |-> <<>>],
     [kind |-> "unreadable", feeds |-> <<>>]}
    \cup {[kind |-> "opml", feeds |-> FeedsOfFile(name, urls)] : urls \in UrlLists}

IsOpmlEntry(entry) == entry.kind \in {"opml", "unreadable"}

Min(S) == CHOOSE x \in S : \A y \in S : x <= y

\* .sort() of the .opml paths
RECURSIVE SortNames(_)
SortNames(S) == IF S = {} THEN <<>> ELSE <<Min(S)>> \o SortNames(S \ {Min(S)})

\* settled.flat(): the per-file results joined in the order of opmlFiles
RECURSIVE FlatFrom(_, _)
FlatFrom(results, i) ==
    IF i > Len(results) THEN <<>> ELSE Val(results[i]) \o FlatFrom(results, i + 1)

\* the join in the order the reads completed
RECURSIVE FlatByCompletion(_, _)
FlatByCompletion(results, order) ==
    IF order = <<>> THEN <<>>
    ELSE Val(results[Head(order)]) \o FlatByCompletion(results, Tail(order))

\* the join of Promise.all's array: the order of opmlFiles, whatever the
\* order the reads completed in
Flat(results, order) == FlatFrom(results, 1)

HasUrl(feeds, url) == \E i \in 1..Len(feeds) : feeds[i].xmlUrl = url

\* the Map filled with  if (!dedup.has(feed.xmlUrl)) dedup.set(...),  read
\* back in insertion order
RECURSIVE DedupFrom(_, _, _)
DedupFrom(merged, i, acc) ==
    IF i > Len(merged) THEN acc
    ELSE DedupFrom(merged, i + 1,
                   IF HasUrl(acc, merged[i].xmlUrl) THEN acc ELSE Append(acc, merged[i]))

Dedup(merged) == DedupFrom(merged, 1, <<>>)

LoadInit ==
    /\ ldPc = "readdir"
    /\ ldDir \in {d \in [FileNames -> UNION {DirEntries(n) : n \in FileNames}] :
                    \A n \in FileNames : d[n] \in DirEntries(n)}
    /\ opmlFiles = <<>>
    /\ settled = <<>>
    /\ ldOrder = <<>>
    /\ ldResult = None

LoadIdle ==
    /\ ldPc = "idle"
    /\ ldDir = <<>>
    /\ opmlFiles = <<>>
    /\ settled = <<>>
    /\ ldOrder = <<>>
    /\ ldResult = None

\* readdir, the filter on .opml files, the sort; no file: the error
ReadDir ==
    /\ ldPc = "readdir"
    /\ opmlFiles' = SortNames({n \in FileNames : IsOpmlEntry(ldDir[n])})
    /\ settled' = [i \in 1..Len(opmlFiles') |-> None]
    /\ ldPc' = IF Len(opmlFiles') = 0 THEN "threwNoOpml" ELSE "reading"
    /\ UNCHANGED <<nonLoadVars, ldDir, ldOrder, ldResult>>

\* one of the concurrent loadFeedsFromSingleOpml calls resolves
ReadSettles(i) ==
    /\ ldPc = "reading"
    /\ settled[i] = None
    /\ ldDir[opmlFiles[i]].kind = "opml"
    /\ settled' = [settled EXCEPT ![i] = Some(ldDir[opmlFiles[i]].feeds)]
    /\ ldOrder' = Append(ldOrder, i)
    /\ UNCHANGED <<nonLoadVars, ldPc, ldDir, opmlFiles, ldResult>>

\* one of them rejects: Promise.all rejects, loadFeedsFromSourceDir throws
ReadRejects(i) ==
    /\ ldPc = "reading"
    /\ settled[i] = None
    /\ ldDir[opmlFiles[i]].kind = "unreadable"
    /\ ldPc' = "threwRead"
    /\ UNCHANGED <<nonLoadVars, ldDir, opmlFiles, settled, ldOrder, ldResult>>

\* all have resolved: flat, dedup, the result
MergeFeeds ==
    /\ ldPc = "reading"
    /\ \A i \in 1..Len(opmlFiles) : settled[i] # None
    /\ LET merged == Flat(settled, ldOrder)
       IN ldResult' = Some([opmlFiles |-> opmlFiles,
                            feeds |-> Dedup(merged),
                            totalFeedsInOpml |-> Len(merged)])
    /\ ldPc' = "returned"
    /\ UNCHANGED <<nonLoadVars, ldDir, opmlFiles, settled, ldOrder>>

(***************************************************************************)
(* The ranker: splitKeywords, scoreByKeywords, sort, slice                 *)
(***************************************************************************)
\* characters of a work profile
MaxProfileLen == 5
\* feeds in the list the aggregator hands to the ranker
MaxRankFeeds == 3
\* values of maxFeeds
MaxCap == 2

\* a keyword has at least two characters
MinKeywordLen == 2

ProfileChars == {"a", "B", ","}
Profiles == UNION {[1..n -> ProfileChars] : n \in 0..MaxProfileLen}

\* the deduplicated feeds the ranker may be handed, their URLs distinct
FeedPool ==
    {[title |-> <<"a", "B">>, xmlUrl |-> <<"x">>],
     [title |-> <<"B", "a">>, xmlUrl |-> <<"y">>],
     [title |-> <<"B">>, xmlUrl |-> <<"a", "b">>],
     [title |-> <<"a", "B", "a">>, xmlUrl |-> <<"z">>]}

FeedLists ==
    {l \in UNION {[1..n -> FeedPool] : n \in 0..MaxRankFeeds} :
        \A i, j \in 1..Len(l) : i # j => l[i] # l[j]}

Lower(c) == IF c = "A" THEN "a" ELSE IF c = "B" THEN "b" ELSE c
ToLowerCase(str) == [i \in 1..Len(str) |-> Lower(str[i])]

\* the separators of /[\s,...]+/ that occur in the strings modelled
IsSeparator(c) == c \in {",", " "}

\* split on runs of separators: the maximal runs of other characters (and
\* the empty string, which the length filter drops)
RECURSIVE SplitFrom(_, _, _)
SplitFrom(str, i, cur) ==
    IF i > Len(str) THEN {cur}
    ELSE IF IsSeparator(str[i]) THEN {cur} \cup SplitFrom(str, i + 1, <<>>)
    ELSE SplitFrom(str, i + 1, Append(cur, str[i]))

\* the keywords as a set: [...new Set(...)]
splitKeywords(workProfile) ==
    {k \in SplitFrom(ToLowerCase(workProfile), 1, <<>>) : Len(k) >= MinKeywordLen}

Includes(source, keyword) ==
    \E i \in 0..(Len(source) - Len(keyword)) :
        SubSeq(source, i + 1, i + Len(keyword)) = keyword

scoreByKeywords(text, keywords) ==
    Cardinality({k \in keywords : Includes(ToLowerCase(text), k)})

\* `${feed.title} ${feed.xmlUrl}`
ScoreText(feed) == feed.title \o <<" ">> \o feed.xmlUrl

WithScore(feed, keywords) ==
    [title |-> feed.title, xmlUrl |-> feed.xmlUrl,
     score |-> scoreByKeywords(ScoreText(feed), keywords)]

\* insert x after every element whose score is not lower: a stable sort by
\* (a, b) => b.score - a.score
RECURSIVE InsertByScore(_, _)
InsertByScore(sorted, x) ==
    IF sorted = <<>> THEN <<x>>
    ELSE IF Head(sorted).score >= x.score
           THEN <<Head(sorted)>> \o InsertByScore(Tail(sorted), x)
           ELSE <<x>> \o sorted

RECURSIVE SortByScoreFrom(_, _, _)
SortByScoreFrom(list, i, acc) ==
    IF i > Len(list) THEN acc
    ELSE SortByScoreFrom(list, i + 1, InsertByScore(acc, list[i]))

SortByScore(list) == SortByScoreFrom(list, 1, <<>>)

Slice(list, n) == SubSeq(list, 1, IF n < Len(list) THEN n ELSE Len(list))

\* the cap applied before the sort
RankSliceFirst(feeds, keywords, maxFeeds) ==
    SortByScore(Slice([i \in 1..Len(feeds) |-> WithScore(feeds[i], keywords)], maxFeeds))

\* feeds.map(score).sort(by score, descending).slice(0, maxFeeds)
RankFeeds(feeds, keywords, maxFeeds) ==
    Slice(SortByScore([i \in 1..Len(feeds) |-> WithScore(feeds[i], keywords)]), maxFeeds)

RankInit ==
    /\ rkPc = "keywords"
    /\ rkFeeds \in FeedLists
    /\ rkProfile \in Profiles
    /\ rkMaxFeeds \in 1..MaxCap
    /\ rkKeywords = {}
    /\ rkRanked = None

RankIdle ==
    /\ rkPc = "idle"
    /\ rkFeeds = <<>>
    /\ rkProfile = <<>>
    /\ rkMaxFeeds = 1
    /\ rkKeywords = {}
    /\ rkRanked = None

SplitKeywords ==
    /\ rkPc = "keywords"
    /\ rkKeywords' = splitKeywords(rkProfile)
    /\ rkPc' = "rank"
    /\ UNCHANGED <<nonRankVars, rkFeeds, rkProfile, rkMaxFeeds, rkRanked>>

Rank ==
    /\ rkPc = "rank"
    /\ rkRanked' = Some(RankFeeds(rkFeeds, rkKeywords, rkMaxFeeds))
    /\ rkPc' = "ranked"
    /\ UNCHANGED <<nonRankVars, rkFeeds, rkProfile, rkMaxFeeds, rkKeywords>>

(***************************************************************************)
(* fetchFeedLatestItems                                                    *)
(***************************************************************************)
\* entries a fetched feed may hold
MaxEntries == 3
\* values of maxItemsPerFeed
MaxItemsCap == 2
\* epoch milliseconds run from -1 to MaxTime; a cutoff is in 1..MaxTime
MaxTime == 3

Timestamps == (-1)..MaxTime
\* sinceDate = now - recentDays days lies after the epoch
Cutoffs == 1..MaxTime

\* item.isoDate || item.pubDate || '': no date, a string Date cannot parse,
\* or a date and its epoch milliseconds
NoDate == [kind |-> "empty", ms |-> 0]
BadDate == [kind |-> "invalid", ms |-> 0]
DateAt(ms) == [kind |-> "date", ms |-> ms]
DateStrings == {NoDate, BadDate} \cup {DateAt(t) : t \in Timestamps}

\* null for the empty string and for a NaN date, else the date
parseDate(value) ==
    IF value.kind = "empty" THEN None
    ELSE IF value.kind = "invalid" THEN None
    ELSE Some(value.ms)

\* summary.slice(0, 700)
SUMMARY_LIMIT == 700

\* a string of which only the length matters is modelled by its length:
\* the raw summary of an entry is short or one character over the limit
SummaryLens == {0, SUMMARY_LIMIT + 1}

\* the entries of a parsed feed: entry k has link k
EntriesOf(dates) == [k \in 1..Len(dates) |-> [link |-> k, date |-> dates[k].date,
                                              summary |-> dates[k].summary]]

\* the errors parseURL throws: a timeout, an HTTP status, and a TLS
\* certificate mismatch whose message lists the certificate's alternative names
Errors == {[message |-> "socket timed out", namesTimeout |-> TRUE, length |-> 16],
           [message |-> "Status code 404", namesTimeout |-> FALSE, length |-> 15],
           [message |-> "Hostname/IP does not match certificate's altnames: ...",
            namesTimeout |-> FALSE, length |-> SUMMARY_LIMIT]}

\* what rssParser.parseURL does: resolves with entries, or throws
NetOutcomes(dateChoices, summaryChoices, maxLen) ==
    {[ok |-> TRUE, items |-> EntriesOf(dates), error |-> <<>>] :
        dates \in UNION {[1..n -> [date : dateChoices, summary : summaryChoices]] :
                           n \in 0..maxLen}}
    \cup {[ok |-> FALSE, items |-> <<>>, error |-> <<e>>] : e \in Errors}

classifyFeedError(error) ==
    [errorType |-> IF error.namesTimeout THEN "timeout" ELSE "other",
     reason |-> error.message, length |-> error.length]

\* 'Failed to parse feed: ' has 22 characters
FAILED_PREFIX_LEN == 22

\* the length of str.slice(0, n) for a string of length len
SliceLen(len, n) == IF len < n THEN len ELSE n

PLACEHOLDER_TITLE == "[feed unavailable]"

ToNewsItem(feed, entry) ==
    [feedTitle |-> feed.title, feedUrl |-> feed.xmlUrl, title |-> "entry",
     link |-> entry.link, publishedAt |-> entry.date,
     publishedTimestamp |-> parseDate(entry.date),
     summary |-> SliceLen(entry.summary, SUMMARY_LIMIT)]

\* !item.publishedTimestamp || item.publishedTimestamp >= sinceDate.getTime()
KeepItem(item, since) ==
    IF item.publishedTimestamp = None THEN TRUE
    ELSE IF Val(item.publishedTimestamp) = 0 THEN TRUE
    ELSE Val(item.publishedTimestamp) >= since

RECURSIVE FilterKept(_, _)
FilterKept(items, since) ==
    IF items = <<>> THEN <<>>
    ELSE IF KeepItem(Head(items), since)
           THEN <<Head(items)>> \o FilterKept(Tail(items), since)
           ELSE FilterKept(Tail(items), since)

Placeholder(feed, classified) ==
    [feedTitle |-> feed.title, feedUrl |-> feed.xmlUrl, title |-> PLACEHOLDER_TITLE,
     link |-> 0, publishedAt |-> NoDate, publishedTimestamp |-> None,
     summary |-> FAILED_PREFIX_LEN + classified.length]

FailureOf(feed, classified) ==
    [feedTitle |-> feed.title, feedUrl |-> feed.xmlUrl,
     reason |-> classified.reason, errorType |-> classified.errorType]

\* the recency filter applied before the per-feed cap
FetchFilterFirst(feed, net, maxItemsPerFeed, since) ==
    IF net.ok
      THEN [items |-> Slice(FilterKept([k \in 1..Len(net.items) |-> ToNewsItem(feed, net.items[k])],
                                       since), maxItemsPerFeed),
            failure |-> None]
      ELSE [items |-> <<Placeholder(feed, classifyFeedError(net.error[1]))>>,
            failure |-> Some(FailureOf(feed, classifyFeedError(net.error[1])))]

\* a catch that records the failure and returns no item
FetchNoPlaceholder(feed, net, maxItemsPerFeed, since) ==
    IF net.ok
      THEN [items |-> FilterKept([k \in 1..Len(Slice(net.items, maxItemsPerFeed)) |->
                                    ToNewsItem(feed, net.items[k])], since),
            failure |-> None]
      ELSE [items |-> <<>>,
            failure |-> Some(FailureOf(feed, classifyFeedError(net.error[1])))]

\* try: slice, map, filter; catch: the placeholder item and the failure
FetchFeedLatestItems(feed, net, maxItemsPerFeed, since) ==
    IF net.ok
      THEN [items |-> FilterKept([k \in 1..Len(Slice(net.items, maxItemsPerFeed)) |->
                                    ToNewsItem(feed, net.items[k])], since),
            failure |-> None]
      ELSE [items |-> <<Placeholder(feed, classifyFeedError(net.error[1]))>>,
            failure |-> Some(FailureOf(feed, classifyFeedError(net.error[1])))]

TheFeed == [title |-> "feed", xmlUrl |-> 1]

FetchInit ==
    /\ ftPc = "fetch"
    /\ ftNet \in NetOutcomes(DateStrings, SummaryLens, MaxEntries)
    /\ ftMax \in 1..MaxItemsCap
    /\ ftSince \in Cutoffs
    /\ ftOutcome = None

FetchIdle ==
    /\ ftPc = "idle"
    /\ ftNet = <<>>
    /\ ftMax = 1
    /\ ftSince = 1
    /\ ftOutcome = None

FetchResolves ==
    /\ ftPc = "fetch"
    /\ ftNet.ok
    /\ ftOutcome' = Some(FetchFeedLatestItems(TheFeed, ftNet, ftMax, ftSince))
    /\ ftPc' = "fetched"
    /\ UNCHANGED <<nonFetchVars, ftNet, ftMax, ftSince>>

FetchCatches ==
    /\ ftPc = "fetch"
    /\ ~ftNet.ok
    /\ ftOutcome' = Some(FetchFeedLatestItems(TheFeed, ftNet, ftMax, ftSince))
    /\ ftPc' = "caught"
    /\ UNCHANGED <<nonFetchVars, ftNet, ftMax, ftSince>>

(***************************************************************************)
(* collectNewsFromSourceDir: the fetch pass and the observability record   *)
(***************************************************************************)
\* feeds the ranker selected
MaxSelected == 2
\* entries of a feed in the fetch pass
MaxCollectEntries == 2
\* entries of all the feeds of the fetch pass together
MaxPassEntries == 4

\* failedRate is rounded to four decimals: it is kept in ten-thousandths
RateScale == 10000

SelectedFeeds(n) == [i \in 1..n |-> [title |-> "feed", xmlUrl |-> i, score |-> 0]]

\* the dates of the fetch pass: none, one at the cutoff, one after it
CollectDates(since) == {NoDate, DateAt(since), DateAt(since + 1)}

RECURSIVE FlatItemsFrom(_, _)
FlatItemsFrom(outcomes, i) ==
    IF i > Len(outcomes) THEN <<>>
    ELSE Val(outcomes[i]).items \o FlatItemsFrom(outcomes, i + 1)

\* publishedTimestamp || 0
SortKey(item) == IF item.publishedTimestamp = None THEN 0 ELSE Val(item.publishedTimestamp)

\* an insertion that puts x before the elements of equal key
RECURSIVE InsertByTimeTiesReversed(_, _)
InsertByTimeTiesReversed(sorted, x) ==
    IF sorted = <<>> THEN <<x>>
    ELSE IF SortKey(Head(sorted)) > SortKey(x)
           THEN <<Head(sorted)>> \o InsertByTimeTiesReversed(Tail(sorted), x)
           ELSE <<x>> \o sorted

\* insert x after every element whose key is not lower: a stable sort by
\* (a, b) => (b.publishedTimestamp || 0) - (a.publishedTimestamp || 0)
RECURSIVE InsertByTime(_, _)
InsertByTime(sorted, x) ==
    IF sorted = <<>> THEN <<x>>
    ELSE IF SortKey(Head(sorted)) >= SortKey(x)
           THEN <<Head(sorted)>> \o InsertByTime(Tail(sorted), x)
           ELSE <<x>> \o sorted

RECURSIVE SortByTimeFrom(_, _, _)
SortByTimeFrom(list, i, acc) ==
    IF i > Len(list) THEN acc
    ELSE SortByTimeFrom(list, i + 1, InsertByTime(acc, list[i]))

\* outcomes.flatMap(o => o.items).sort(by timestamp, descending)
ItemsOf(outcomes) == SortByTimeFrom(FlatItemsFrom(outcomes, 1), 1, <<>>)

RECURSIVE FailuresFrom(_, _, _)
FailuresFrom(outcomes, i, timeoutOnly) ==
    IF i > Len(outcomes) THEN <<>>
    ELSE (IF /\ Val(outcomes[i]).failure # None
             /\ (timeoutOnly => Val(Val(outcomes[i]).failure).errorType = "timeout")
            THEN Val(outcomes[i]).failure ELSE <<>>)
         \o FailuresFrom(outcomes, i + 1, timeoutOnly)

\* only the failures classified as timeouts
FailedFeedsTimeoutOnly(outcomes) == FailuresFrom(outcomes, 1, TRUE)
\* outcomes.map(o => o.failure).filter(Boolean)
FailedFeeds(outcomes) == FailuresFrom(outcomes, 1, FALSE)

\* Number((failed / selected).toFixed(4)), in ten-thousandths
FailedRate(failed, selected) ==
    IF selected = 0 THEN 0
    ELSE (2 * failed * RateScale + selected) \div (2 * selected)

Observability(feeds, outcomes) ==
    LET failedFeeds == FailedFeeds(outcomes)
    IN [selectedFeedCount |-> Len(feeds),
        failedFeedCount |-> Len(failedFeeds),
        failedRate |-> FailedRate(Len(failedFeeds), Len(feeds)),
        timeoutFeeds |-> FailuresFrom(outcomes, 1, TRUE),
        failedFeeds |-> failedFeeds]

\* the entries parseURL has delivered to the pass so far
RECURSIVE PassEntries(_, _)
PassEntries(nets, i) ==
    IF i > Len(nets) THEN 0
    ELSE (IF nets[i] = None THEN 0 ELSE Len(Val(nets[i]).items)) + PassEntries(nets, i + 1)

CollectInit ==
    /\ clPc = "fetching"
    /\ clFeeds \in {SelectedFeeds(n) : n \in 0..MaxSelected}
    /\ clMax \in 1..MaxItemsCap
    /\ clSince \in Cutoffs
    /\ clNet = [i \in 1..Len(clFeeds) |-> None]
    /\ clOutcomes = [i \in 1..Len(clFeeds) |-> None]
    /\ clOrder = <<>>
    /\ clResult = None

CollectIdle ==
    /\ clPc = "idle"
    /\ clFeeds = <<>>
    /\ clMax = 1
    /\ clSince = 1
    /\ clNet = <<>>
    /\ clOutcomes = <<>>
    /\ clOrder = <<>>
    /\ clResult = None

\* one of the concurrent fetchFeedLatestItems calls settles: its parseURL
\* resolved or threw, and the call returns its outcome either way
FeedSettles(i) ==
    /\ clPc = "fetching"
    /\ clOutcomes[i] = None
    /\ \E net \in NetOutcomes(CollectDates(clSince), {0}, MaxCollectEntries) :
          /\ PassEntries(clNet, 1) + Len(net.items) <= MaxPassEntries
          /\ clNet' = [clNet EXCEPT ![i] = Some(net)]
          /\ clOutcomes' = [clOutcomes EXCEPT
                              ![i] = Some(FetchFeedLatestItems(clFeeds[i], net, clMax, clSince))]
    /\ clOrder' = Append(clOrder, i)
    /\ UNCHANGED <<nonCollectVars, clPc, clFeeds, clMax, clSince, clResult>>

\* Promise.all has resolved: the item list and the observability record
Assemble ==
    /\ clPc = "fetching"
    /\ \A i \in 1..Len(clFeeds) : clOutcomes[i] # None
    /\ clResult' = Some([items |-> ItemsOf(clOutcomes),
                         feedObservability |-> Observability(clFeeds, clOutcomes)])
    /\ clPc' = "returned"
    /\ UNCHANGED <<nonCollectVars, clFeeds, clMax, clSince, clNet, clOutcomes, clOrder>>

(***************************************************************************)
(* The observability record after a fetch pass: failedSampleLines of the   *)
(* narrative and feedObservability of the structured report                *)
(***************************************************************************)
\* feeds selected in a fetch pass whose record is followed
MaxObserved == 11

\* observability.failedFeeds.slice(0, 10)
SAMPLE_LIMIT == 10

\* the fetches of the pass: a feed with no entry, or an HTTP error
ObservedNets ==
    {net \in NetOutcomes({NoDate}, {0}, 0) :
        IF net.ok THEN TRUE ELSE net.error[1].message = "Status code 404"}

\* `- ${f.feedTitle}: ${f.reason}`
SampleLine(f) == [feedTitle |-> f.feedTitle, feedUrl |-> f.feedUrl, reason |-> f.reason]

NO_SAMPLE_LINES == <<"none">>

\* the failure samples of the narrative: the first ten failures, or '- 无'
FailedSampleLines(observability) ==
    IF Len(observability.failedFeeds) > 0
      THEN [k \in 1..Len(Slice(observability.failedFeeds, SAMPLE_LIMIT)) |->
              SampleLine(observability.failedFeeds[k])]
      ELSE NO_SAMPLE_LINES

ObserveInit ==
    /\ obPc = "settled"
    /\ \E n \in 0..MaxObserved :
          /\ obFeeds = SelectedFeeds(n)
          /\ obOutcomes \in {[i \in 1..n |-> Some(FetchFeedLatestItems(obFeeds[i], nets[i], 1, 1))] :
                               nets \in [1..n -> ObservedNets]}
    /\ obRecord = None
    /\ obSampleLines = None
    /\ obStored = None

ObserveIdle ==
    /\ obPc = "idle"
    /\ obFeeds = <<>>
    /\ obOutcomes = <<>>
    /\ obRecord = None
    /\ obSampleLines = None
    /\ obStored = None

\* collectNewsFromSourceDir builds the record and returns it
RecordObservability ==
    /\ obPc = "settled"
    /\ obRecord' = Some(Observability(obFeeds, obOutcomes))
    /\ obPc' = "recorded"
    /\ UNCHANGED <<nonObserveVars, obFeeds, obOutcomes, obSampleLines, obStored>>

\* failedSampleLines of the narrative report
RenderSamples ==
    /\ obPc = "recorded"
    /\ obSampleLines' = Some(FailedSampleLines(Val(obRecord)))
    /\ obPc' = "rendered"
    /\ UNCHANGED <<nonObserveVars, obFeeds, obOutcomes, obRecord, obStored>>

\* structured.feedObservability: observability ?? null
StoreStructured ==
    /\ obPc = "rendered"
    /\ obStored' = obRecord
    /\ obPc' = "stored"
    /\ UNCHANGED <<nonObserveVars, obFeeds, obOutcomes, obRecord, obSampleLines>>

(***************************************************************************)
(* Successive runs of the script over one news directory: the comparison   *)
(* target, the timestamp-derived names and the two writes                  *)
(***************************************************************************)
\* runs started one after the other
MaxRuns == 3
\* the local wall clock, in ticks
MaxClock == 3
\* ticks in one second of the wall clock
TicksPerSecond == 2
\* times the local wall clock is set back (the end of daylight saving time,
\* a clock adjustment)
MaxSetBacks == 1

\* formatTimestamp: the local date and time down to the second, the part of
\* a second dropped; a name YYYYMMDD-HHmmss is modelled by the number of
\* the local second it names, so that names sort as their numbers
formatTimestamp(date) == date \div TicksPerSecond

Stamps == {formatTimestamp(t) : t \in 0..MaxClock}

\* <stamp>.md and <stamp>.json: 0 when absent, else the run that wrote it
NoFiles == [s \in Stamps |-> [md |-> 0, json |-> 0]]

\* files.filter((f) => f.endsWith('.md'))
MarkdownFiles(files) == {s \in Stamps : files[s].md # 0}

Last(S) == CHOOSE x \in S : \A y \in S : y <= x

\* the last of the sorted .md names, or null
getLatestReportFile(files) ==
    IF MarkdownFiles(files) = {} THEN None ELSE Some(Last(MarkdownFiles(files)))

\* writeFile: creates the file or replaces its content
WriteFile(files, stamp, kind, run) ==
    [files EXCEPT ![stamp] = IF kind = "md" THEN [md |-> run, json |-> files[stamp].json]
                                            ELSE [md |-> files[stamp].md, json |-> run]]

RunsInit ==
    /\ rnPc = "none"
    /\ rnClock = 0
    /\ rnSetBacks = 0
    /\ rnFiles = NoFiles
    /\ rnRun = 0
    /\ rnCompared = None
    /\ rnStamp = 0
    /\ rnLog = <<>>

RunsIdle ==
    /\ rnPc = "idle"
    /\ rnClock = 0
    /\ rnSetBacks = 0
    /\ rnFiles = <<>>
    /\ rnRun = 0
    /\ rnCompared = None
    /\ rnStamp = 0
    /\ rnLog = <<>>

\* time passes
Tick ==
    /\ rnPc # "idle"
    /\ rnClock < MaxClock
    /\ rnClock' = rnClock + 1
    /\ UNCHANGED <<nonRunsVars, rnPc, rnSetBacks, rnFiles, rnRun, rnCompared, rnStamp, rnLog>>

\* the local time is set back
SetBack ==
    /\ rnPc # "idle"
    /\ rnSetBacks < MaxSetBacks
    /\ \E k \in 1..rnClock : rnClock' = rnClock - k
    /\ rnSetBacks' = rnSetBacks + 1
    /\ UNCHANGED <<nonRunsVars, rnPc, rnFiles, rnRun, rnCompared, rnStamp, rnLog>>

\* a run starts and generateValidatedReport returns
StartRun ==
    /\ rnPc = "none"
    /\ rnRun < MaxRuns
    /\ rnRun' = rnRun + 1
    /\ rnPc' = "latest"
    /\ UNCHANGED <<nonRunsVars, rnClock, rnSetBacks, rnFiles, rnCompared, rnStamp, rnLog>>

\* getLatestReportFile and the read of the report it names, then the trend
RunGetsLatest ==
    /\ rnPc = "latest"
    /\ LET latest == getLatestReportFile(rnFiles)
       IN rnCompared' = Some([path |-> latest,
                              author |-> IF latest = None THEN 0 ELSE rnFiles[Val(latest)].md])
    /\ rnPc' = "stamp"
    /\ UNCHANGED <<nonRunsVars, rnClock, rnSetBacks, rnFiles, rnRun, rnStamp, rnLog>>

\* now = new Date(); timestamp, reportPath, jsonPath
RunTakesTimestamp ==
    /\ rnPc = "stamp"
    /\ rnStamp' = formatTimestamp(rnClock)
    /\ rnPc' = "writeMd"
    /\ UNCHANGED <<nonRunsVars, rnClock, rnSetBacks, rnFiles, rnRun, rnCompared, rnLog>>

\* the fallback fetch pass when needed, then writeFile(reportPath, ...)
RunWritesMarkdown ==
    /\ rnPc = "writeMd"
    /\ rnFiles' = WriteFile(rnFiles, rnStamp, "md", rnRun)
    /\ rnPc' = "writeJson"
    /\ UNCHANGED <<nonRunsVars, rnClock, rnSetBacks, rnRun, rnCompared, rnStamp, rnLog>>

\* writeFile(jsonPath, ...): the run is complete
RunWritesJson ==
    /\ rnPc = "writeJson"
    /\ rnFiles' = WriteFile(rnFiles, rnStamp, "json", rnRun)
    /\ rnLog' = Append(rnLog, [run |-> rnRun, stamp |-> rnStamp,
                               comparedWith |-> Val(rnCompared).path,
                               comparedAuthor |-> Val(rnCompared).author])
    /\ rnCompared' = None
    /\ rnPc' = "none"
    /\ UNCHANGED <<nonRunsVars, rnClock, rnSetBacks, rnRun, rnStamp>>

\* the trend call or the fallback fetch pass rejects: the run ends and has
\* written nothing
RunAborts ==
    /\ rnPc \in {"stamp", "writeMd"}
    /\ rnCompared' = None
    /\ rnPc' = "none"
    /\ UNCHANGED <<nonRunsVars, rnClock, rnSetBacks, rnFiles, rnRun, rnStamp, rnLog>>

(***************************************************************************)
(* loadFeedsFromSingleOpml: the walk over the outlines of a parsed OPML    *)
(* document                                                                *)
(***************************************************************************)
\* outline elements of a document
MaxNodes == 3

EmptyString == <<>>

\* An outline element as the XML parser hands it over: the empty string for
\* an element with neither attribute nor child, else an object with the
\* attributes present.
OutlineShapes ==
    {[kind |-> "object", hasUrl |-> u, title |-> tt[1], text |-> tt[2]] :
        u \in BOOLEAN,
        tt \in {<<EmptyString, EmptyString>>, <<<<"t">>, <<"x">>>>, <<EmptyString, <<"x">>>>}}
    \cup {[kind |-> "empty", hasUrl |-> FALSE, title |-> EmptyString, text |-> EmptyString]}

\* Element i has the URL <<i>> when it has one
OutlineAttrs(i, shape) ==
    [kind |-> shape.kind, xmlUrl |-> IF shape.hasUrl THEN <<i>> ELSE EmptyString,
     title |-> shape.title, text |-> shape.text]

\* the parent of an element is the body (0) or an element before it
Parents(n) == {p \in [1..n -> 0..n] : \A i \in 1..n : p[i] < i}

\* only an object has child elements
WellFormed(n, parents, shapes) ==
    \A i \in 1..n : parents[i] # 0 => shapes[parents[i]].kind = "object"

DocumentOf(n, parents, shapes) ==
    [i \in 1..n |-> [parent |-> parents[i], attrs |-> OutlineAttrs(i, shapes[i])]]

\* the child elements of p (0: the body) in document order
RECURSIVE ChildrenFrom(_, _, _)
ChildrenFrom(doc, p, i) ==
    IF i > Len(doc) THEN <<>>
    ELSE (IF doc[i].parent = p THEN <<i>> ELSE <<>>) \o ChildrenFrom(doc, p, i + 1)

\* the value of the property `outline`: absent without a child, the child
\* itself when there is one, an array when there are several
OutlineOf(doc, p) ==
    LET kids == ChildrenFrom(doc, p, 1)
    IN [shape |-> IF Len(kids) = 0 THEN "absent"
                  ELSE IF Len(kids) = 1 THEN "single" ELSE "array",
        items |-> kids]

\* if (!current): the empty string is falsy, an object is not
Falsy(doc, i) == doc[i].attrs.kind = "empty"

\* if (outline): absent and the empty string are falsy, an array is not
HasOutline(doc, outline) ==
    IF outline.shape = "absent" THEN FALSE
    ELSE IF outline.shape = "single" THEN ~Falsy(doc, outline.items[1])
    ELSE TRUE

\* a || b || c over strings
FirstNonEmpty(a, b, c) == IF a # EmptyString THEN a ELSE IF b # EmptyString THEN b ELSE c

FeedInfoOf(attrs) ==
    [title |-> FirstNonEmpty(attrs.title, attrs.text, attrs.xmlUrl), xmlUrl |-> attrs.xmlUrl]

\* an element that is a feed is not descended into
PushedUnlessFeed(doc, i) ==
    IF doc[i].attrs.xmlUrl # EmptyString THEN <<>>
    ELSE IF HasOutline(doc, OutlineOf(doc, i)) THEN OutlineOf(doc, i).items ELSE <<>>
\* what one iteration pushes for the element it popped: its children
Pushed(doc, i) ==
    IF HasOutline(doc, OutlineOf(doc, i)) THEN OutlineOf(doc, i).items ELSE <<>>

OpmlInit ==
    /\ opPc = "parse"
    /\ \E n \in 0..MaxNodes :
          \E parents \in Parents(n), shapes \in [1..n -> OutlineShapes] :
             /\ WellFormed(n, parents, shapes)
             /\ opTree = DocumentOf(n, parents, shapes)
    /\ opStack = <<>>
    /\ opFeeds = <<>>
    /\ opSteps = 0

OpmlIdle ==
    /\ opPc = "idle"
    /\ opTree = <<>>
    /\ opStack = <<>>
    /\ opFeeds = <<>>
    /\ opSteps = 0

\* the parse, and the stack of the body's outlines, or [] without any
ParseBody ==
    /\ opPc = "parse"
    /\ IF HasOutline(opTree, OutlineOf(opTree, 0))
         THEN /\ opStack' = OutlineOf(opTree, 0).items
              /\ opPc' = "walk"
         ELSE /\ opStack' = <<>>
              /\ opPc' = "returned"
    /\ UNCHANGED <<nonOpmlVars, opTree, opFeeds, opSteps>>

\* one iteration of while (stack.length > 0): pop, emit, push the children
PopOutline ==
    /\ opPc = "walk"
    /\ Len(opStack) > 0
    /\ LET current == opStack[Len(opStack)]
           rest == SubSeq(opStack, 1, Len(opStack) - 1)
       IN IF Falsy(opTree, current)
            THEN /\ opStack' = rest
                 /\ opFeeds' = opFeeds
            ELSE /\ opFeeds' = IF opTree[current].attrs.xmlUrl # EmptyString
                                 THEN Append(opFeeds, FeedInfoOf(opTree[current].attrs))
                                 ELSE opFeeds
                 /\ opStack' = rest \o Pushed(opTree, current)
    /\ opSteps' = opSteps + 1
    /\ UNCHANGED <<nonOpmlVars, opPc, opTree>>

\* the stack is empty: return feeds
ReturnFeeds ==
    /\ opPc = "walk"
    /\ Len(opStack) = 0
    /\ opPc' = "returned"
    /\ UNCHANGED <<nonOpmlVars, opTree, opStack, opFeeds, opSteps>>

(***************************************************************************)
(* generateValidatedReport and the retry flags of the artifacts, for two   *)
(* runs side by side                                                       *)
(***************************************************************************)
\* What generateValidatedReport returns when the successive calls of
\* rssAgent.generate return the texts t1 and t2 (the second call is made
\* only when t1 fails the check).
ValidatedReport(t1, t2) ==
    IF hasRequiredHeadings(t1) THEN [text |-> t1, toolOutput |-> None, retries |-> 0]
    ELSE IF hasRequiredHeadings(t2) THEN [text |-> t2, toolOutput |-> None, retries |-> 1]
    ELSE AfterLoop(t2, None)

\* what the two artifacts say of validation: the line FormatValidationRetried
\* of the narrative and the field formatValidationRetried of the structured report
RetryFlags(report) ==
    [narrative |-> IF report.retries > 0 THEN "yes" ELSE "no",
     structured |-> report.retries > 0]

TheRuns == {"A", "B"}

ValidationInit ==
    /\ vlPc = "generate"
    /\ vlTexts \in [TheRuns -> [first : Texts, second : Texts]]
    /\ vlReports = None
    /\ vlFlags = None

ValidationIdle ==
    /\ vlPc = "idle"
    /\ vlTexts = <<>>
    /\ vlReports = None
    /\ vlFlags = None

\* each run's generateValidatedReport returns
BothGenerate ==
    /\ vlPc = "generate"
    /\ vlReports' = Some([r \in TheRuns |-> ValidatedReport(vlTexts[r].first, vlTexts[r].second)])
    /\ vlPc' = "generated"
    /\ UNCHANGED <<nonValidationVars, vlTexts, vlFlags>>

\* each run writes its narrative and its structured report
BothPersist ==
    /\ vlPc = "generated"
    /\ vlFlags' = Some([r \in TheRuns |-> RetryFlags(Val(vlReports)[r])])
    /\ vlPc' = "persisted"
    /\ UNCHANGED <<nonValidationVars, vlTexts, vlReports>>

(***************************************************************************)
(* extractSectionBody on the generated text: the sections of the           *)
(* structured report                                                       *)
(***************************************************************************)
\* lines of a generated text
MaxLines == 5

\* A markdown text is a sequence of tokens: a required heading (the whole
\* string '## ...' of REQUIRED_HEADINGS), another '## ' heading, a blank, a
\* visible character, a line break.
HeadingTokens == <<"## releases", "## relevant", "## tests", "## ignored">>
OTHER_HEADING == "## other"
Newline == "LF"

\* the lines a text is written from: a body line, a heading that is not
\* required, a required heading alone, followed by a blank, or by a character
TextLines ==
    {<<"x">>, <<OTHER_HEADING>>}
    \cup {<<HeadingTokens[h]>> : h \in REQUIRED_HEADINGS}
    \cup {<<HeadingTokens[h], Blank>> : h \in REQUIRED_HEADINGS}
    \cup {<<HeadingTokens[h], "x">> : h \in REQUIRED_HEADINGS}

\* lines.join('\n')
RECURSIVE JoinLines(_)
JoinLines(lines) ==
    IF lines = <<>> THEN <<>>
    ELSE IF Len(lines) = 1 THEN lines[1]
    ELSE lines[1] \o <<Newline>> \o JoinLines(Tail(lines))

\* markdown.split(/\r?\n/)
RECURSIVE SplitLines(_)
SplitLines(markdown) ==
    LET breaks == {k \in 1..Len(markdown) : markdown[k] = Newline}
    IN IF breaks = {} THEN <<markdown>>
       ELSE <<SubSeq(markdown, 1, Min(breaks) - 1)>>
            \o SplitLines(SubSeq(markdown, Min(breaks) + 1, Len(markdown)))

\* text.includes(heading)
IncludesHeading(markdown, heading) ==
    \E k \in 1..Len(markdown) : markdown[k] = HeadingTokens[heading]

\* the generated text as the validation sees it
TextOf(markdown) ==
    [id |-> 1, heads |-> {h \in REQUIRED_HEADINGS : IncludesHeading(markdown, h)}]

\* lines.findIndex((line) => line.trim() === heading); 0 stands for -1
FindIndex(lines, heading) ==
    LET hits == {i \in 1..Len(lines) : Trim(lines[i]) = <<HeadingTokens[heading]>>}
    IN IF hits = {} THEN 0 ELSE Min(hits)

\* line.startsWith('## ')
StartsWithHeadingMark(line) ==
    IF line = <<>> THEN FALSE
    ELSE line[1] = OTHER_HEADING \/ \E h \in REQUIRED_HEADINGS : line[1] = HeadingTokens[h]

\* the lines pushed to body from line i on, up to the break
RECURSIVE BodyFrom(_, _)
BodyFrom(lines, i) ==
    IF i > Len(lines) THEN <<>>
    ELSE IF StartsWithHeadingMark(lines[i]) THEN <<>>
    ELSE <<lines[i]>> \o BodyFrom(lines, i + 1)

\* String.prototype.trim on a text of several lines
IsSpace(c) == c = Blank \/ c = Newline

RECURSIVE TrimSpacesStart(_)
TrimSpacesStart(s) ==
    IF s = <<>> THEN s ELSE IF IsSpace(Head(s)) THEN TrimSpacesStart(Tail(s)) ELSE s

RECURSIVE TrimSpacesEnd(_)
TrimSpacesEnd(s) ==
    IF s = <<>> THEN s
    ELSE IF IsSpace(s[Len(s)]) THEN TrimSpacesEnd(SubSeq(s, 1, Len(s) - 1)) ELSE s

TrimSpaces(s) == TrimSpacesEnd(TrimSpacesStart(s))

extractSectionBody(markdown, heading) ==
    LET lines == SplitLines(markdown)
        start == FindIndex(lines, heading)
    IN IF start = 0 THEN <<>>
       ELSE TrimSpaces(JoinLines(BodyFrom(lines, start + 1)))

SectionsInit ==
    /\ scPc = "generated"
    /\ \E n \in 0..MaxLines :
          \E lines \in [1..n -> TextLines] : scText = JoinLines(lines)
    /\ scValid = None
    /\ scSections = None

SectionsIdle ==
    /\ scPc = "idle"
    /\ scText = <<>>
    /\ scValid = None
    /\ scSections = None

\* generateValidatedReport checks the text it got
ValidateText ==
    /\ scPc = "generated"
    /\ scValid' = Some(hasRequiredHeadings(TextOf(scText)))
    /\ scPc' = "validated"
    /\ UNCHANGED <<nonSectionsVars, scText, scSections>>

\* section1..section4 of the structured report, from generated.text
StructureSections ==
    /\ scPc = "validated"
    /\ scSections' = Some([h \in REQUIRED_HEADINGS |-> extractSectionBody(scText, h)])
    /\ scPc' = "structured"
    /\ UNCHANGED <<nonSectionsVars, scText, scValid>>

(***************************************************************************)
(* Specifications                                                          *)
(***************************************************************************)
Init == RunInit /\ LoadIdle /\ RankIdle /\ FetchIdle /\ CollectIdle /\ ObserveIdle /\ RunsIdle /\ OpmlIdle /\ ValidationIdle /\ SectionsIdle

Next ==
    \/ CheckEnv
    \/ ParseCliArgs
    \/ GenerateThrows
    \/ GenerateWithoutTool
    \/ GenerateWithTool
    \/ GetLatestReport
    \/ TrendFirstRun
    \/ TrendCompared
    \/ TrendThrows
    \/ FallbackToolOutput
    \/ WriteMarkdown
    \/ WriteJson

Spec == Init /\ [][Next]_vars

InitLoad == LoadInit /\ RunIdle /\ RankIdle /\ FetchIdle /\ CollectIdle /\ ObserveIdle /\ RunsIdle /\ OpmlIdle /\ ValidationIdle /\ SectionsIdle

NextLoad ==
    \/ ReadDir
    \/ \E i \in 1..Len(opmlFiles) : ReadSettles(i)
    \/ \E i \in 1..Len(opmlFiles) : ReadRejects(i)
    \/ MergeFeeds

SpecLoad == InitLoad /\ [][NextLoad]_vars

InitRank == RankInit /\ RunIdle /\ LoadIdle /\ FetchIdle /\ CollectIdle /\ ObserveIdle /\ RunsIdle /\ OpmlIdle /\ ValidationIdle /\ SectionsIdle

NextRank ==
    \/ SplitKeywords
    \/ Rank

SpecRank == InitRank /\ [][NextRank]_vars

InitFetch == FetchInit /\ RunIdle /\ LoadIdle /\ RankIdle /\ CollectIdle /\ ObserveIdle /\ RunsIdle /\ OpmlIdle /\ ValidationIdle /\ SectionsIdle

NextFetch ==
    \/ FetchResolves
    \/ FetchCatches

SpecFetch == InitFetch /\ [][NextFetch]_vars

InitCollect == CollectInit /\ RunIdle /\ LoadIdle /\ RankIdle /\ FetchIdle /\ ObserveIdle /\ RunsIdle /\ OpmlIdle /\ ValidationIdle /\ SectionsIdle

NextCollect ==
    \/ \E i \in 1..Len(clFeeds) : FeedSettles(i)
    \/ Assemble

SpecCollect == InitCollect /\ [][NextCollect]_vars

InitObserve == ObserveInit /\ RunIdle /\ LoadIdle /\ RankIdle /\ FetchIdle /\ CollectIdle /\ RunsIdle /\ OpmlIdle /\ ValidationIdle /\ SectionsIdle

NextObserve ==
    \/ RecordObservability
    \/ RenderSamples
    \/ StoreStructured

SpecObserve == InitObserve /\ [][NextObserve]_vars

InitRuns == RunsInit /\ RunIdle /\ LoadIdle /\ RankIdle /\ FetchIdle /\ CollectIdle /\ ObserveIdle /\ OpmlIdle /\ ValidationIdle /\ SectionsIdle

NextRuns ==
    \/ Tick
    \/ SetBack
    \/ StartRun
    \/ RunGetsLatest
    \/ RunTakesTimestamp
    \/ RunWritesMarkdown
    \/ RunWritesJson
    \/ RunAborts

SpecRuns == InitRuns /\ [][NextRuns]_vars

InitOpml == OpmlInit /\ RunIdle /\ LoadIdle /\ RankIdle /\ FetchIdle /\ CollectIdle /\ ObserveIdle /\ RunsIdle /\ ValidationIdle /\ SectionsIdle

NextOpml ==
    \/ ParseBody
    \/ PopOutline
    \/ ReturnFeeds

SpecOpml == InitOpml /\ [][NextOpml]_vars

InitValidation == ValidationInit /\ RunIdle /\ LoadIdle /\ RankIdle /\ FetchIdle /\ CollectIdle /\ ObserveIdle /\ RunsIdle /\ OpmlIdle /\ SectionsIdle

NextValidation ==
    \/ BothGenerate
    \/ BothPersist

SpecValidation == InitValidation /\ [][NextValidation]_vars

InitSections == SectionsInit /\ RunIdle /\ LoadIdle /\ RankIdle /\ FetchIdle /\ CollectIdle /\ ObserveIdle /\ RunsIdle /\ OpmlIdle /\ ValidationIdle

NextSections ==
    \/ ValidateText
    \/ StructureSections

SpecSections == InitSections /\ [][NextSections]_vars

(***************************************************************************)
(* Claims about the top-level run (Spec)                                   *)
(***************************************************************************)
\* the text holds each of the four required headings
ContainsAllHeadings(text) == REQUIRED_HEADINGS \subseteq text.heads

LoopLeft == pc \notin {"idle", "env", "cli", "generate"}

\* C1: a first text with all four headings gives retries = 0 after exactly
\* one generation call; a first text lacking a heading is followed by exactly
\* one more call, made after the first returned; no run makes more than two
\* generation calls.
C1_GenerationCalls ==
    /\ genCalls <= 2
    /\ genCalls \in {Len(genTexts), Len(genTexts) + 1}
    /\ (Len(genTexts) >= 1 /\ ContainsAllHeadings(genTexts[1])) =>
          /\ genCalls = 1
          /\ IsSome(generated)
          /\ Val(generated).retries = 0
          /\ Val(generated).text = genTexts[1]
    /\ (Len(genTexts) >= 1 /\ ~ContainsAllHeadings(genTexts[1])) =>
          /\ (pc = "generate" => genCalls = 1 /\ generated = None)
          /\ (pc # "generate" => genCalls = 2)

\* the first text lacked a heading, the second call returned, the loop is left
C1_Witness ==
    /\ pc = "latest"
    /\ Len(genTexts) = 2
    /\ ~ContainsAllHeadings(genTexts[1])
    /\ genCalls = 2

BothTextsInvalid ==
    /\ Len(genTexts) = 2
    /\ ~ContainsAllHeadings(genTexts[1])
    /\ ~ContainsAllHeadings(genTexts[2])

\* C2: when both generated texts fail the heading check the run does not
\* abort (the fatal no-OPML condition of the source directory aside): it
\* goes on to write both artifacts, whose body is the text of the second
\* attempt and whose retry flag is set.
C2_DegradedReportPersisted ==
    BothTextsInvalid =>
        /\ pc = "aborted" => abortCause = "noOpml"
        /\ IsSome(mdFile) =>
              /\ Val(mdFile).body = genTexts[2]
              /\ Val(mdFile).formatValidationRetried = "yes"
        /\ IsSome(jsonFile) =>
              /\ Val(jsonFile).sectionsOf = genTexts[2]
              /\ Val(jsonFile).formatValidationRetried = TRUE
        /\ pc = "done" => IsSome(mdFile) /\ IsSome(jsonFile)

\* the string has a character that is not white space
NonBlank(str) == \E i \in 1..Len(str) : str[i] # Blank

TrendReturned == pc \in {"fallback", "writeMd", "writeJson", "done"}

\* C13: when the news directory holds no previous report, summarizeTrend
\* returns the fixed first-run message as it is, the trend model is never
\* called, and the narrative carries that message and 'ComparedWith: none'.
C13_FirstRunMessage ==
    newsDir = None =>
        /\ trendCalls = 0
        /\ trendText = None
        /\ abortCause # "trend"
        /\ TrendReturned => trendSummary = Some(FIRST_RUN_MESSAGE)
        /\ IsSome(trendSummary) => Val(trendSummary) = FIRST_RUN_MESSAGE
        /\ IsSome(mdFile) =>
              /\ Val(mdFile).trend = FIRST_RUN_MESSAGE
              /\ Val(mdFile).comparedWith = None

\* a first run has finished and its narrative carries the first-run message
C13_Witness ==
    /\ pc = "done"
    /\ newsDir = None
    /\ Val(mdFile).trend = FIRST_RUN_MESSAGE
    /\ trendCalls = 0

\* C14: whenever summarizeTrend has returned, its result has a character
\* that is not white space, and so has the trend section of the narrative;
\* when the trend model returned empty or white-space-only text the result
\* is the fixed no-clear-trend message.
C14_TrendNeverBlank ==
    /\ TrendReturned => IsSome(trendSummary)
    /\ IsSome(trendSummary) => NonBlank(Val(trendSummary))
    /\ IsSome(mdFile) => NonBlank(Val(mdFile).trend)
    /\ (IsSome(trendText) /\ IsSome(trendSummary) /\ ~NonBlank(Val(trendText)))
          => Val(trendSummary) = NO_TREND_MESSAGE
    /\ (IsSome(trendText) /\ IsSome(trendSummary) /\ NonBlank(Val(trendText)))
          => Val(trendSummary) # NO_TREND_MESSAGE

\* the trend model returned white space only and the report is written
C14_Witness ==
    /\ pc = "done"
    /\ trendText = Some(<<Blank>>)
    /\ Val(mdFile).trend = NO_TREND_MESSAGE

\* C20: the text and the tool output generateValidatedReport returns come
\* from the same generation attempt, and the observability record written
\* with the report is that of the fetch pass the tool ran for that attempt,
\* with the parameters the tool was called with; it is never that of a
\* later pass.
C20_ObservabilityOfTextPass ==
    /\ generated # None =>
          /\ Val(generated).text = genTexts[Len(genTexts)]
          /\ IsSome(Val(generated).toolOutput) =>
                Val(Val(generated).toolOutput).pass = genPasses[Len(genPasses)]
    /\ jsonFile # None =>
          /\ Val(jsonFile).sectionsOf = genTexts[Len(genTexts)]
          /\ Val(jsonFile).feedObservability.pass = genPasses[Len(genPasses)]
          /\ Val(jsonFile).feedObservability.params = LlmParams
          /\ Val(mdFile).observability = Val(jsonFile).feedObservability

\* C21: a written narrative says 'ComparedWith: none' exactly when its trend
\* section is the fixed first-run message; when it names a previous report,
\* whatever that file holds, the trend section is the result of a comparison.
C21_ComparedWithMatchesTrend ==
    mdFile # None =>
        /\ (Val(mdFile).comparedWith = None) <=> (Val(mdFile).trend = FIRST_RUN_MESSAGE)
        /\ Val(mdFile).comparedWith # None => trendCalls = 1

\* C5: when the directory named by cli.sourceDir holds no .opml file, the
\* run writes neither the narrative nor the structured report.
C5_NoOpmlNoReport ==
    dirState[CliDir] = "noOpml" => (mdFile = None /\ jsonFile = None)

\* C6: a run ends without its artifacts only for missing credentials or an
\* OPML-free source directory.
C6_OnlyTwoFatalConditions ==
    pc = "aborted" => abortCause \in {"credentials", "noOpml"}

(***************************************************************************)
(* Claims about loadFeedsFromSourceDir (SpecLoad)                          *)
(***************************************************************************)
\* the places <<file name, position>> where a readable .opml file lists url
Occurrences(url) ==
    {<<n, k>> \in FileNames \X (1..MaxFeedsPerFile) :
        /\ ldDir[n].kind = "opml"
        /\ k <= Len(ldDir[n].feeds)
        /\ ldDir[n].feeds[k].xmlUrl = url}

LexLeq(a, b) == a[1] < b[1] \/ (a[1] = b[1] /\ a[2] <= b[2])

FirstOccurrence(url) ==
    CHOOSE o \in Occurrences(url) : \A q \in Occurrences(url) : LexLeq(o, q)

\* C4: the feed list returned has pairwise distinct URLs, holds exactly the
\* URLs some file lists, and for each URL keeps the descriptor of its first
\* occurrence in file-name order, whatever the order the reads completed in.
C4_FirstSeenWins ==
    ldPc = "returned" =>
        LET feeds == Val(ldResult).feeds
        IN /\ \A i, j \in 1..Len(feeds) : i # j => feeds[i].xmlUrl # feeds[j].xmlUrl
           /\ \A u \in Urls : HasUrl(feeds, u) <=> Occurrences(u) # {}
           /\ \A i \in 1..Len(feeds) :
                 LET o == FirstOccurrence(feeds[i].xmlUrl)
                 IN feeds[i] = ldDir[o[1]].feeds[o[2]]

\* two files list the same URL, the later file was read first, and the
\* descriptor kept is the earlier file's
C4_Witness ==
    /\ ldPc = "returned"
    /\ Len(ldOrder) >= 2
    /\ ldOrder[1] > ldOrder[2]
    /\ \E u \in Urls :
          /\ \E o, q \in Occurrences(u) : o[1] # q[1]
          /\ \E i \in 1..Len(Val(ldResult).feeds) :
                /\ Val(ldResult).feeds[i].xmlUrl = u
                /\ Val(ldResult).feeds[i].title[1] = opmlFiles[ldOrder[2]]

(***************************************************************************)
(* Claims about the ranker (SpecRank)                                      *)
(***************************************************************************)
\* the position of the feed with this URL in the aggregator's list
IndexOf(xmlUrl) == CHOOSE i \in 1..Len(rkFeeds) : rkFeeds[i].xmlUrl = xmlUrl

\* a comes before b in the list sorted by score, ties in encounter order
RanksBefore(sa, ia, sb, ib) == sa > sb \/ (sa = sb /\ ia < ib)

\* C7: the selection has min(maxFeeds, number of feeds) elements, each a
\* feed of the list with its score; selected feeds are in non-increasing
\* score order with equal scores in the aggregator's order; and every
\* unselected feed ranks after every selected one (no higher score, and
\* on a tie a later position in the aggregator's list).
C7_RankedSelection ==
    rkPc = "ranked" =>
        LET ranked == Val(rkRanked)
            n == Len(rkFeeds)
            Score(i) == scoreByKeywords(ScoreText(rkFeeds[i]), splitKeywords(rkProfile))
            Selected == {IndexOf(ranked[k].xmlUrl) : k \in 1..Len(ranked)}
        IN /\ Len(ranked) = IF rkMaxFeeds < n THEN rkMaxFeeds ELSE n
           /\ Len(ranked) <= rkMaxFeeds
           /\ \A k \in 1..Len(ranked) :
                 /\ \E i \in 1..n : rkFeeds[i].xmlUrl = ranked[k].xmlUrl
                 /\ ranked[k].title = rkFeeds[IndexOf(ranked[k].xmlUrl)].title
                 /\ ranked[k].score = Score(IndexOf(ranked[k].xmlUrl))
           /\ \A k, l \in 1..Len(ranked) :
                 k < l => RanksBefore(ranked[k].score, IndexOf(ranked[k].xmlUrl),
                                      ranked[l].score, IndexOf(ranked[l].xmlUrl))
           /\ \A i \in (1..n) \ Selected : \A k \in 1..Len(ranked) :
                 RanksBefore(ranked[k].score, IndexOf(ranked[k].xmlUrl), Score(i), i)

\* the cap cuts the list, a feed left out comes before a selected one in the
\* aggregator's list, and two selected feeds tie
C7_Witness ==
    /\ rkPc = "ranked"
    /\ Len(Val(rkRanked)) = 2
    /\ Len(rkFeeds) = 3
    /\ Val(rkRanked)[1].score = Val(rkRanked)[2].score
    /\ Val(rkRanked)[1].score > 0
    /\ Val(rkRanked)[2].xmlUrl = rkFeeds[3].xmlUrl

(***************************************************************************)
(* Claims about fetchFeedLatestItems (SpecFetch)                           *)
(***************************************************************************)
\* C8: every item of a fetch result whose publishedTimestamp is present has
\* a timestamp at or after the recency cutoff.
C8_PresentTimestampsRecent ==
    ftPc = "fetched" =>
        \A k \in 1..Len(Val(ftOutcome).items) :
            LET item == Val(ftOutcome).items[k]
            IN item.publishedTimestamp # None =>
                  Val(item.publishedTimestamp) >= ftSince

\* the entry has no date Date can parse
Undated(entry) == entry.date.kind \in {"empty", "invalid"}

\* C9: a successful fetch returns at most maxItemsPerFeed items, each one
\* of the feed's first maxItemsPerFeed entries, in the feed's order, and
\* every undated entry among those first entries is in the result whatever
\* the cutoff.
C9_CapThenFilter ==
    ftPc = "fetched" =>
        LET items == Val(ftOutcome).items
            entries == ftNet.items
            FirstEntries == {k \in 1..Len(entries) : k <= ftMax}
        IN /\ Len(items) <= ftMax
           /\ \A k \in 1..Len(items) :
                 /\ items[k].link \in FirstEntries
                 /\ items[k].publishedAt = entries[items[k].link].date
           /\ \A k, l \in 1..Len(items) : k < l => items[k].link < items[l].link
           /\ \A e \in FirstEntries :
                 Undated(entries[e]) => \E k \in 1..Len(items) : items[k].link = e

\* the feed has more entries than the cap, a first entry is undated and
\* kept, another is older than the cutoff and dropped, and an entry past the
\* cap is recent
C9_Witness ==
    /\ ftPc = "fetched"
    /\ ftMax = 2
    /\ Len(ftNet.items) = 3
    /\ Undated(ftNet.items[1])
    /\ ftNet.items[2].date = DateAt(ftSince - 1)
    /\ ftSince - 1 # 0
    /\ ftNet.items[3].date = DateAt(ftSince)
    /\ Len(Val(ftOutcome).items) = 1
    /\ Val(ftOutcome).items[1].link = 1

\* C11: every item a feed fetch returns, the placeholder of a failed feed
\* included, has a summary of at most 700 characters.
C11_SummaryBounded ==
    ftPc \in {"fetched", "caught"} =>
        \A k \in 1..Len(Val(ftOutcome).items) :
            Val(ftOutcome).items[k].summary <= SUMMARY_LIMIT

(***************************************************************************)
(* Claims about the fetch pass (SpecCollect)                               *)
(***************************************************************************)
Failed(i) == ~Val(clNet[i]).ok

ItemsOfFeed(items, url) == {k \in 1..Len(items) : items[k].feedUrl = url}

\* C3: whichever feeds fail, the fetch pass returns, and its item list holds
\* for each succeeded feed exactly the items its fetch retained, for each
\* failed feed exactly one item, the placeholder, and nothing else; every
\* fetch settles with an outcome.
C3_FailureIsolation ==
    /\ clPc \in {"idle", "fetching", "returned"}
    /\ \A i \in 1..Len(clFeeds) :
          clNet[i] # None => clOutcomes[i] # None
    /\ clPc = "returned" =>
        LET items == Val(clResult).items
        IN /\ \A i \in 1..Len(clFeeds) :
                 LET mine == ItemsOfFeed(items, clFeeds[i].xmlUrl)
                 IN IF Failed(i)
                      THEN /\ Cardinality(mine) = 1
                           /\ \A k \in mine : items[k].title = PLACEHOLDER_TITLE
                      ELSE /\ Cardinality(mine) = Len(Val(clOutcomes[i]).items)
                           /\ {items[k] : k \in mine}
                                = {Val(clOutcomes[i]).items[k] :
                                     k \in 1..Len(Val(clOutcomes[i]).items)}
                           /\ \A k \in mine : items[k].title # PLACEHOLDER_TITLE
           /\ \A k \in 1..Len(items) :
                 \E i \in 1..Len(clFeeds) : items[k].feedUrl = clFeeds[i].xmlUrl

\* one feed failed, another succeeded and kept an item, and the pass returned
C3_Witness ==
    /\ clPc = "returned"
    /\ \E i, j \in 1..Len(clFeeds) :
          /\ Failed(i)
          /\ ~Failed(j)
          /\ Len(Val(clOutcomes[j]).items) = 1
    /\ Len(Val(clResult).items) = 2

\* C10: failedFeedCount is the number of selected feeds whose fetch threw,
\* with one FeedFailure for each of them and none for the others; it is at
\* most selectedFeedCount; failedRate lies in [0, 1] and is 0 when no feed
\* was selected.
C10_FailureAccounting ==
    clPc = "returned" =>
        LET obs == Val(clResult).feedObservability
            FailedSet == {i \in 1..Len(clFeeds) : Failed(i)}
        IN /\ obs.selectedFeedCount = Len(clFeeds)
           /\ obs.failedFeedCount = Cardinality(FailedSet)
           /\ Len(obs.failedFeeds) = obs.failedFeedCount
           /\ \A i \in 1..Len(clFeeds) :
                 Cardinality({k \in 1..Len(obs.failedFeeds) :
                                obs.failedFeeds[k].feedUrl = clFeeds[i].xmlUrl})
                   = IF Failed(i) THEN 1 ELSE 0
           /\ obs.failedFeedCount <= obs.selectedFeedCount
           /\ 0 <= obs.failedRate
           /\ obs.failedRate <= RateScale
           /\ obs.selectedFeedCount = 0 => obs.failedRate = 0

\* one of two selected feeds failed, with an error that is no timeout
C10_Witness ==
    /\ clPc = "returned"
    /\ Len(clFeeds) = 2
    /\ Val(clResult).feedObservability.failedFeedCount = 1
    /\ Val(clResult).feedObservability.failedRate = 5000
    /\ Val(clResult).feedObservability.failedFeeds[1].errorType = "other"

\* the sort key of an item: its timestamp, 0 when it has none
KeyOf(item) == IF item.publishedTimestamp = None THEN 0 ELSE Val(item.publishedTimestamp)

\* a comes before b: a higher key, or the same key and an earlier selected
\* feed, or the same feed and an earlier entry
ComesBefore(a, b) ==
    \/ KeyOf(a) > KeyOf(b)
    \/ /\ KeyOf(a) = KeyOf(b)
       /\ \/ a.feedUrl < b.feedUrl
          \/ (a.feedUrl = b.feedUrl /\ a.link < b.link)

RECURSIVE SumOfLens(_, _)
SumOfLens(outcomes, i) ==
    IF i > Len(outcomes) THEN 0 ELSE Len(Val(outcomes[i]).items) + SumOfLens(outcomes, i + 1)

\* C18: the item list exists only once every fetch has settled; it holds
\* the items of all outcomes, by timestamp descending with an absent
\* timestamp counted as 0, items of equal key in selected-feed order and
\* then in feed order; so it is the same whatever the order the fetches
\* completed in.
C18_ItemOrderFixed ==
    /\ clResult # None => \A i \in 1..Len(clFeeds) : clOutcomes[i] # None
    /\ clPc = "returned" =>
          LET items == Val(clResult).items
          IN /\ Len(items) = SumOfLens(clOutcomes, 1)
             /\ \A k, l \in 1..Len(items) : k < l => ComesBefore(items[k], items[l])

\* the second feed settled first; the first feed has two undated entries,
\* the second an older and a newer dated one, which come first, newer first
C18_Witness ==
    /\ clPc = "returned"
    /\ Len(clFeeds) = 2
    /\ clOrder = <<2, 1>>
    /\ Len(Val(clResult).items) = 4
    /\ Val(clNet[2]).items[1].date = DateAt(clSince)
    /\ Val(clNet[2]).items[2].date = DateAt(clSince + 1)
    /\ Val(clResult).items[1].feedUrl = 2
    /\ Val(clResult).items[1].link = 2
    /\ Val(clResult).items[2].feedUrl = 2
    /\ Val(clResult).items[3].feedUrl = 1
    /\ Val(clResult).items[3].link = 1
    /\ Val(clResult).items[4].feedUrl = 1
    /\ Val(clResult).items[3].publishedTimestamp = None
    /\ Val(clResult).items[4].publishedTimestamp = None

(***************************************************************************)
(* Claims about the observability record (SpecObserve)                     *)
(***************************************************************************)
\* C12: the failure samples of the observability record, as returned by the
\* fetch pass and as stored in the structured report, are never more than
\* ten, and are the first ten failures in selected-feed order; so are the
\* sample lines of the narrative.
C12_SampleCap ==
    obPc = "stored" =>
        LET failures == FailedFeeds(obOutcomes)
            cap == IF Len(failures) < SAMPLE_LIMIT THEN Len(failures) ELSE SAMPLE_LIMIT
        IN /\ Len(Val(obRecord).failedFeeds) <= SAMPLE_LIMIT
           /\ Len(Val(obStored).failedFeeds) <= SAMPLE_LIMIT
           /\ Val(obStored).failedFeeds = SubSeq(failures, 1, cap)
           /\ Len(failures) > 0 => Len(Val(obSampleLines)) = cap

(***************************************************************************)
(* Claims about successive runs (SpecRuns)                                 *)
(***************************************************************************)
JsonFiles(files) == {s \in Stamps : files[s].json # 0}

\* C15: after any sequence of completed runs the news directory holds, for
\* each of them, the narrative and the structured file it wrote under its
\* timestamp, neither replaced by a later run, and no other file: one
\* narrative and one structured file per completed run.
C15_OneArtifactPairPerRun ==
    /\ \A k \in 1..Len(rnLog) :
          /\ rnFiles[rnLog[k].stamp].md = rnLog[k].run
          /\ rnFiles[rnLog[k].stamp].json = rnLog[k].run
    /\ rnPc = "none" =>
          /\ Cardinality(MarkdownFiles(rnFiles)) = Len(rnLog)
          /\ Cardinality(JsonFiles(rnFiles)) = Len(rnLog)

\* C19: the first completed run compares with nothing; every later one
\* compares with the narrative the completed run just before it wrote, and
\* names that file; no run compares with a report of its own.
C19_ComparesWithPrecedingRun ==
    \A k \in 1..Len(rnLog) :
        /\ rnLog[k].comparedAuthor # rnLog[k].run
        /\ IF k = 1
             THEN rnLog[k].comparedWith = None
             ELSE /\ rnLog[k].comparedWith = Some(rnLog[k - 1].stamp)
                  /\ rnLog[k].comparedAuthor = rnLog[k - 1].run

(***************************************************************************)
(* Claims about loadFeedsFromSingleOpml (SpecOpml)                         *)
(***************************************************************************)
\* the outline elements that carry a non-empty xmlUrl
FeedNodes == {i \in 1..Len(opTree) : opTree[i].attrs.xmlUrl # EmptyString}

\* C16: the walk ends after at most one iteration per outline element and
\* is never stuck before it returns; the list returned has exactly one
\* descriptor for each element with a non-empty xmlUrl, elements with
\* children included, and none for any other element; every descriptor has
\* a non-empty URL and a non-empty title (title, else text, else the URL);
\* a document without body outlines gives the empty list.
C16_OneDescriptorPerFeedOutline ==
    /\ opSteps <= Len(opTree)
    /\ opPc \in {"parse", "walk"} => ENABLED NextOpml
    /\ opPc = "returned" =>
          /\ Len(opFeeds) = Cardinality(FeedNodes)
          /\ \A i \in FeedNodes :
                Cardinality({k \in 1..Len(opFeeds) : opFeeds[k].xmlUrl = <<i>>}) = 1
          /\ \A k \in 1..Len(opFeeds) :
                /\ opFeeds[k].xmlUrl # EmptyString
                /\ opFeeds[k].title # EmptyString
                /\ \E i \in FeedNodes :
                      /\ opFeeds[k].xmlUrl = opTree[i].attrs.xmlUrl
                      /\ opFeeds[k].title =
                           IF opTree[i].attrs.title # EmptyString THEN opTree[i].attrs.title
                           ELSE IF opTree[i].attrs.text # EmptyString THEN opTree[i].attrs.text
                           ELSE opTree[i].attrs.xmlUrl
          /\ ChildrenFrom(opTree, 0, 1) = <<>> => opFeeds = <<>>

\* a feed element nested under a folder has itself a feed child, and both
\* are in the list returned
C16_Witness ==
    /\ opPc = "returned"
    /\ Len(opTree) = 3
    /\ opTree[1].attrs.xmlUrl = EmptyString
    /\ opTree[2].parent = 1
    /\ opTree[2].attrs.xmlUrl # EmptyString
    /\ opTree[3].parent = 2
    /\ opTree[3].attrs.xmlUrl # EmptyString
    /\ opTree[3].attrs.title = EmptyString
    /\ Len(opFeeds) = 2

(***************************************************************************)
(* Claims about the record of validation (SpecValidation)                  *)
(***************************************************************************)
SecondPassed(r) ==
    ~ContainsAllHeadings(vlTexts[r].first) /\ ContainsAllHeadings(vlTexts[r].second)

SecondFailed(r) ==
    ~ContainsAllHeadings(vlTexts[r].first) /\ ~ContainsAllHeadings(vlTexts[r].second)

\* C17: of two runs, one whose second attempt passed the heading check and
\* one whose second attempt failed it too, what is recorded about validation
\* differs: the retry count generateValidatedReport returns, or the retry
\* flag of the narrative, or that of the structured report.
C17_UltimateFailureRecorded ==
    (vlPc = "persisted" /\ SecondPassed("A") /\ SecondFailed("B")) =>
        \/ Val(vlReports)["A"].retries # Val(vlReports)["B"].retries
        \/ Val(vlFlags)["A"].narrative # Val(vlFlags)["B"].narrative
        \/ Val(vlFlags)["A"].structured # Val(vlFlags)["B"].structured

(***************************************************************************)
(* Claims about the sections of the structured report (SpecSections)       *)
(***************************************************************************)
\* the heading is a line of its own at line i of the text
OwnLine(lines, i, heading) == Trim(lines[i]) = <<HeadingTokens[heading]>>

\* C22: when the text passed hasRequiredHeadings, each required heading is
\* a line of its own in it, and the section extracted for the heading is
\* the text after the first such line up to the next line that starts
\* with '## '.
C22_ValidatedHeadingsLocated ==
    (scPc = "structured" /\ Val(scValid)) =>
        LET lines == SplitLines(scText)
        IN \A h \in REQUIRED_HEADINGS :
              \E i \in 1..Len(lines) :
                 /\ OwnLine(lines, i, h)
                 /\ \A j \in 1..(i - 1) : ~OwnLine(lines, j, h)
                 /\ Val(scSections)[h] = TrimSpaces(JoinLines(BodyFrom(lines, i + 1)))

====
